---- MODULE Spec2Model ----
(***************************************************************************)
(* Model of the "Import Structured Content" widget (tools/import-sc).      *)
(*                                                                         *)
(* JavaScript strings are sequences of one-character strings, so that      *)
(* trim(), endsWith(), JSON.parse() and escapeHtml() are computed and not  *)
(* assumed.  Alert messages are sequences of text chunks: the literal      *)
(* parts of a template string are one chunk each, an interpolated value    *)
(* contributes its characters.                                             *)
(***************************************************************************)
EXTENDS Integers, Sequences, FiniteSets, TLC

(***************************************************************************)
(* Bounds of the model.                                                    *)
(***************************************************************************)
\* catalog requests that may be in flight at once
MaxLoads == 2
\* Validate / Import actions that may be suspended on the network at once
MaxActs == 2
\* largest amount of time one Tick lets pass
TickStep == 250
\* events the user dispatches in one session: edits of the form fields and
\* of the editor, clicks on Validate and on Import
MaxEvents == 6

\* debounce(() => this.loadSchemas(), 500)
DebounceWait == 500

(***************************************************************************)
(* Strings.                                                                *)
(***************************************************************************)
IsWs(c) == c \in {" ", "\n", "\t", "\r"}

RECURSIVE TrimStart(_)
TrimStart(s) ==
  IF s # <<>> /\ IsWs(Head(s)) THEN TrimStart(Tail(s)) ELSE s

RECURSIVE TrimEnd(_)
TrimEnd(s) ==
  IF s # <<>> /\ IsWs(s[Len(s)]) THEN TrimEnd(SubSeq(s, 1, Len(s) - 1)) ELSE s

\* String.prototype.trim
Trim(s) == TrimEnd(TrimStart(s))

\* JavaScript truthiness of a string: the empty string is falsy
Truthy(s) == s # <<>>

\* String.prototype.endsWith
EndsWith(s, suffix) ==
  /\ Len(s) >= Len(suffix)
  /\ SubSeq(s, Len(s) - Len(suffix) + 1, Len(s)) = suffix

(***************************************************************************)
(* JSON.parse on the subset of JSON the model's texts use: objects,        *)
(* arrays, strings without escapes, unsigned integers and the three        *)
(* literals.  A parse function returns the index after what it consumed,   *)
(* or 0 when the text is not JSON at that place.                           *)
(***************************************************************************)
Digits == {"0", "1", "2", "3", "4", "5", "6", "7", "8", "9"}

RECURSIVE SkipWs(_, _)
SkipWs(s, i) == IF i <= Len(s) /\ IsWs(s[i]) THEN SkipWs(s, i + 1) ELSE i

RECURSIVE ScanString(_, _)
\* i is inside a string literal: the index after its closing quote
ScanString(s, i) ==
  IF i > Len(s) THEN 0
  ELSE IF s[i] = "\"" THEN i + 1
  ELSE IF s[i] = "\\" \/ s[i] \in {"\n", "\t", "\r"} THEN 0
  ELSE ScanString(s, i + 1)

ParseString(s, i) ==
  IF i <= Len(s) /\ s[i] = "\"" THEN ScanString(s, i + 1) ELSE 0

RECURSIVE ScanDigits(_, _)
ScanDigits(s, i) ==
  IF i <= Len(s) /\ s[i] \in Digits THEN ScanDigits(s, i + 1) ELSE i

ParseNumber(s, i) ==
  IF i > Len(s) \/ s[i] \notin Digits THEN 0
  ELSE IF s[i] = "0" THEN i + 1
  ELSE ScanDigits(s, i + 1)

ParseLiteral(s, i, lit) ==
  IF i + Len(lit) - 1 <= Len(s) /\ SubSeq(s, i, i + Len(lit) - 1) = lit
  THEN i + Len(lit) ELSE 0

RECURSIVE ParseValue(_, _)
RECURSIVE ParseMembers(_, _)
RECURSIVE ParseElements(_, _)


\* the index after the white space that follows index j - 1, 0 staying 0
Then(s, j) == IF j = 0 THEN 0 ELSE SkipWs(s, j)

\* c is where the ':' of a member must be: the index after the member
AfterColon(s, c) ==
  IF c = 0 \/ c > Len(s) \/ s[c] # ":" THEN 0
  ELSE Then(s, ParseValue(s, SkipWs(s, c + 1)))

\* e is where ',' or the closing '}' must be
MoreMembers(s, e) ==
  IF e = 0 \/ e > Len(s) THEN 0
  ELSE IF s[e] = "}" THEN e + 1
  ELSE IF s[e] = "," THEN ParseMembers(s, SkipWs(s, e + 1))
  ELSE 0

\* after '{' and white space, with at least one member to read
ParseMembers(s, i) == MoreMembers(s, AfterColon(s, Then(s, ParseString(s, i))))

\* e is where ',' or the closing ']' must be
MoreElements(s, e) ==
  IF e = 0 \/ e > Len(s) THEN 0
  ELSE IF s[e] = "]" THEN e + 1
  ELSE IF s[e] = "," THEN ParseElements(s, SkipWs(s, e + 1))
  ELSE 0

\* after '[' and white space, with at least one element to read
ParseElements(s, i) == MoreElements(s, Then(s, ParseValue(s, i)))

\* j is the index after '{' and white space
ParseObjectAt(s, j) ==
  IF j <= Len(s) /\ s[j] = "}" THEN j + 1 ELSE ParseMembers(s, j)

\* j is the index after '[' and white space
ParseArrayAt(s, j) ==
  IF j <= Len(s) /\ s[j] = "]" THEN j + 1 ELSE ParseElements(s, j)

ParseValue(s, i) ==
  IF i > Len(s) THEN 0
  ELSE IF s[i] = "{" THEN ParseObjectAt(s, SkipWs(s, i + 1))
  ELSE IF s[i] = "[" THEN ParseArrayAt(s, SkipWs(s, i + 1))
  ELSE IF s[i] = "\"" THEN ParseString(s, i)
  ELSE IF s[i] = "t" THEN ParseLiteral(s, i, <<"t", "r", "u", "e">>)
  ELSE IF s[i] = "f" THEN ParseLiteral(s, i, <<"f", "a", "l", "s", "e">>)
  ELSE IF s[i] = "n" THEN ParseLiteral(s, i, <<"n", "u", "l", "l">>)
  ELSE ParseNumber(s, i)

\* j is the index after the value: nothing but white space may follow
EndsAt(s, j) == j # 0 /\ SkipWs(s, j) = Len(s) + 1

\* JSON.parse(text) does not throw
JsonParses(s) == EndsAt(s, ParseValue(s, SkipWs(s, 1)))

RECURSIVE Minify(_, _, _)
\* the text without the white space between its tokens
Minify(s, i, inStr) ==
  IF i > Len(s) THEN <<>>
  ELSE IF inStr THEN <<s[i]>> \o Minify(s, i + 1, s[i] # "\"")
  ELSE IF IsWs(s[i]) THEN Minify(s, i + 1, FALSE)
  ELSE <<s[i]>> \o Minify(s, i + 1, s[i] = "\"")

\* The value JSON.parse returns, for a text that parses: in this subset a
\* value is determined by its tokens in order (object keys keep their
\* insertion order), so the value is held as its token text.
JsonValue(s) == Minify(s, 1, FALSE)

RECURSIVE TopKeys(_, _)

\* e is the index after a member of v
KeysAfter(v, e) == IF e <= Len(v) /\ v[e] = "," THEN TopKeys(v, e + 1) ELSE {}

\* the key that starts at index i ends before index k, its ':' is at k
KeyAndRest(v, i, k) == {SubSeq(v, i + 1, k - 2)} \cup KeysAfter(v, ParseValue(v, k + 1))

\* the keys of the object value v, reading its members from index i
TopKeys(v, i) ==
  IF i > Len(v) \/ v[i] # "\"" THEN {} ELSE KeyAndRest(v, i, ParseString(v, i))

IsObject(v) == v # <<>> /\ v[1] = "{"

ObjectKeys(v) == IF IsObject(v) THEN TopKeys(v, 2) ELSE {}

(***************************************************************************)
(* JSON.stringify(value, null, 2) on a value held as its token text.       *)
(***************************************************************************)
RECURSIVE Indent(_)
Indent(depth) == IF depth <= 0 THEN <<>> ELSE <<" ", " ">> \o Indent(depth - 1)

RECURSIVE Pretty(_, _, _, _)
Pretty(v, i, depth, inStr) ==
  IF i > Len(v) THEN <<>>
  ELSE IF inStr THEN <<v[i]>> \o Pretty(v, i + 1, depth, v[i] # "\"")
  ELSE IF v[i] = "\"" THEN <<v[i]>> \o Pretty(v, i + 1, depth, TRUE)
  ELSE IF v[i] \in {"{", "["} THEN
    IF i < Len(v) /\ v[i + 1] \in {"}", "]"}
    THEN <<v[i], v[i + 1]>> \o Pretty(v, i + 2, depth, FALSE)
    ELSE <<v[i], "\n">> \o Indent(depth + 1) \o Pretty(v, i + 1, depth + 1, FALSE)
  ELSE IF v[i] \in {"}", "]"} THEN
    <<"\n">> \o Indent(depth - 1) \o <<v[i]>> \o Pretty(v, i + 1, depth - 1, FALSE)
  ELSE IF v[i] = "," THEN
    <<",", "\n">> \o Indent(depth) \o Pretty(v, i + 1, depth, FALSE)
  ELSE IF v[i] = ":" THEN <<":", " ">> \o Pretty(v, i + 1, depth, FALSE)
  ELSE <<v[i]>> \o Pretty(v, i + 1, depth, FALSE)

JsonStringify(v) == Pretty(v, 1, 0, FALSE)

(***************************************************************************)
(* utils/helpers.js, utils/html-generator.js                               *)
(***************************************************************************)
RECURSIVE escapeHtmlKeepGt(_)
\* an escape that leaves '>' as it is
escapeHtmlKeepGt(text) ==
  IF text = <<>> THEN <<>>
  ELSE (CASE Head(text) = "&" -> <<"&", "a", "m", "p", ";">>
          [] Head(text) = "<" -> <<"&", "l", "t", ";">>
          [] OTHER -> <<Head(text)>>) \o escapeHtmlKeepGt(Tail(text))

RECURSIVE escapeHtmlKeepAmp(_)
\* an escape that leaves '&' as it is
escapeHtmlKeepAmp(text) ==
  IF text = <<>> THEN <<>>
  ELSE (CASE Head(text) = "<" -> <<"&", "l", "t", ";">>
          [] Head(text) = ">" -> <<"&", "g", "t", ";">>
          [] OTHER -> <<Head(text)>>) \o escapeHtmlKeepAmp(Tail(text))

RECURSIVE escapeHtml(_)
\* div.textContent = text; return div.innerHTML: the HTML serialisation of a
\* text node replaces '&', '<' and '>' (and no quote character)
escapeHtml(text) ==
  IF text = <<>> THEN <<>>
  ELSE (CASE Head(text) = "&" -> <<"&", "a", "m", "p", ";">>
          [] Head(text) = "<" -> <<"&", "l", "t", ";">>
          [] Head(text) = ">" -> <<"&", "g", "t", ";">>
          [] OTHER -> <<Head(text)>>) \o escapeHtml(Tail(text))

HtmlHead ==
  <<"<body>\n  <header></header>\n  <main>\n    <div>\n      <div class=\"da-form\">\n        <div>\n          <div>x-schema-name</div>\n          <div>">>

\* the tags around the serialised value, character by character
PreCodeOpen == <<"<", "p", "r", "e", ">", "<", "c", "o", "d", "e", ">">>
CodeClose == <<"<", "/", "c", "o", "d", "e", ">">>

HtmlMiddle ==
  <<"</div>\n        </div>\n        <div>\n          <div>x-storage-format</div>\n          <div>code</div>\n        </div>\n      </div>\n      ">>
    \o PreCodeOpen

HtmlTail ==
  CodeClose \o <<"</pre>\n    </div>\n  </main>\n  <footer></footer>\n</body>">>

generateStructuredHTML(schemaName, jsonData) ==
  HtmlHead \o escapeHtml(schemaName) \o HtmlMiddle
    \o escapeHtml(JsonStringify(jsonData)) \o HtmlTail

(***************************************************************************)
(* What the network can answer.  net = "fail" is a rejected fetch();       *)
(* otherwise the response has a status and a body.                         *)
(***************************************************************************)
HttpOk(resp) == resp.status \in 200..299

NetworkErrorMessage == <<"Failed to fetch">>

SchemaX == <<"x">>
SchemaY == <<"y">>

\* the remote locator of a document of the schema folder of org/site
RemotePath(org, site, name) == <<"/">> \o org \o <<"/">> \o site \o <<"/">> \o name

Item(org, site, name, ext) ==
  [name |-> name, ext |-> ext, path |-> RemotePath(org, site, name), lastModified |-> 1]

\* bodies of the listing endpoint for the folder of org/site
Listings(org, site) ==
  { <<>>,
    <<Item(org, site, SchemaX, "html")>>,
    <<Item(org, site, SchemaY, "html"), Item(org, site, SchemaX, "json")>> }

\* json: the body is JSON, so that response.json() resolves
CatalogResponses(org, site) ==
  { [net |-> "fail", status |-> 0, json |-> FALSE, isArray |-> FALSE, items |-> <<>>],
    [net |-> "ok", status |-> 404, json |-> FALSE, isArray |-> FALSE, items |-> <<>>],
    [net |-> "ok", status |-> 200, json |-> TRUE, isArray |-> FALSE, items |-> <<>>] }
  \cup { [net |-> "ok", status |-> 200, json |-> TRUE, isArray |-> TRUE, items |-> l] :
           l \in Listings(org, site) }

\* schema documents: any value; an object with property "b"; and null, on
\* which the validator throws
SchemaAny == <<"{", "}">>
SchemaRequireB ==
  <<"{", "\"", "r", "e", "q", "u", "i", "r", "e", "d", "\"", ":",
    "[", "\"", "b", "\"", "]", "}">>
SchemaNull == <<"n", "u", "l", "l">>
SchemaBroken == <<"{">>

SchemaResponses ==
  { [net |-> "fail", status |-> 0, hasCode |-> FALSE, code |-> <<>>],
    [net |-> "ok", status |-> 404, hasCode |-> FALSE, code |-> <<>>],
    [net |-> "ok", status |-> 200, hasCode |-> FALSE, code |-> <<>>] }
  \cup { [net |-> "ok", status |-> 200, hasCode |-> TRUE, code |-> c] :
           c \in {SchemaAny, SchemaRequireB, SchemaNull, SchemaBroken} }

PublishResponses ==
  { [net |-> "fail", status |-> 0, statusText |-> <<>>],
    [net |-> "ok", status |-> 200, statusText |-> <<"OK">>],
    [net |-> "ok", status |-> 500, statusText |-> <<"Internal Server Error">>] }

(***************************************************************************)
(* utils/api.js                                                            *)
(***************************************************************************)
StatusCode(n) == <<ToString(n)>>

NoSchemas == [n \in {} |-> [name |-> <<>>, path |-> <<>>, modified |-> 0]]

\* data.forEach(item => { if (item.name && item.ext === 'html') ... })
IsSchemaItem(item) == Truthy(item.name) /\ item.ext = "html"

\* the last item of the listing that sets schemas[n]
LastItem(items, n) ==
  items[CHOOSE i \in 1..Len(items) :
          /\ IsSchemaItem(items[i]) /\ items[i].name = n
          /\ \A j \in i + 1..Len(items) :
               ~(IsSchemaItem(items[j]) /\ items[j].name = n)]

SchemaReference(n, item) == [name |-> n, path |-> item.path, modified |-> item.lastModified]

SchemasOfListing(items) ==
  [n \in {items[i].name : i \in {j \in 1..Len(items) : IsSchemaItem(items[j])}} |->
     SchemaReference(n, LastItem(items, n))]

\* error.message of the SyntaxError of JSON.parse and of response.json()
ParseErrorMessage == <<"Unexpected token in JSON">>

\* the address loadSchemas() requests the listing from
SchemasUrl(org, site) ==
  <<"https://admin.da.page", "/list/">> \o org \o <<"/">> \o site
    \o <<"/.da/forms/schemas">>

\* loadSchemas() reporting a status that is not a success without the status
loadSchemasResultNoStatus(org, site, resp) ==
  IF ~Truthy(org)
  THEN [success |-> FALSE, schemas |-> NoSchemas, error |-> <<"Organization is required">>]
  ELSE IF resp.net = "fail"
  THEN [success |-> FALSE, schemas |-> NoSchemas, error |-> NetworkErrorMessage]
  ELSE IF ~HttpOk(resp)
  THEN [success |-> FALSE, schemas |-> NoSchemas, error |-> <<"Failed to load schemas">>]
  ELSE IF ~resp.json
  THEN [success |-> FALSE, schemas |-> NoSchemas, error |-> ParseErrorMessage]
  ELSE [success |-> TRUE,
        schemas |-> IF resp.isArray THEN SchemasOfListing(resp.items) ELSE NoSchemas,
        error |-> <<>>]

\* the result of loadSchemas(org, site, token) when the listing request is
\* answered by resp
loadSchemasResult(org, site, resp) ==
  IF ~Truthy(org)
  THEN [success |-> FALSE, schemas |-> NoSchemas, error |-> <<"Organization is required">>]
  ELSE IF resp.net = "fail"
  THEN [success |-> FALSE, schemas |-> NoSchemas, error |-> NetworkErrorMessage]
  ELSE IF ~HttpOk(resp)
  THEN [success |-> FALSE, schemas |-> NoSchemas,
        error |-> <<"Failed to load schemas: ">> \o StatusCode(resp.status)]
  ELSE IF ~resp.json
  THEN [success |-> FALSE, schemas |-> NoSchemas, error |-> ParseErrorMessage]
  ELSE [success |-> TRUE,
        schemas |-> IF resp.isArray THEN SchemasOfListing(resp.items) ELSE NoSchemas,
        error |-> <<>>]

\* the result of fetchSchema(schemaPath, token) when the request is
\* answered by resp
fetchSchemaResult(resp) ==
  IF resp.net = "fail"
  THEN [success |-> FALSE, schema |-> <<>>, error |-> NetworkErrorMessage]
  ELSE IF ~HttpOk(resp)
  THEN [success |-> FALSE, schema |-> <<>>,
        error |-> <<"Failed to fetch schema: ">> \o StatusCode(resp.status)]
  ELSE IF ~resp.hasCode
  THEN [success |-> FALSE, schema |-> <<>>,
        error |-> <<"Schema definition not found in HTML">>]
  ELSE IF ~JsonParses(resp.code)
  THEN [success |-> FALSE, schema |-> <<>>, error |-> ParseErrorMessage]
  ELSE [success |-> TRUE, schema |-> JsonValue(resp.code), error |-> <<>>]

PreviewBaseUrl == <<"https://da-sc--da-live--adobe.aem.live">>

\* const fullPath = documentPath.endsWith('.html') ? documentPath : ...
FullPath(documentPath) ==
  IF EndsWith(documentPath, <<".", "h", "t", "m", "l">>)
  THEN documentPath ELSE documentPath \o <<".", "h", "t", "m", "l">>

\* the address the upload is posted to
ImportUrl(org, site, documentPath) ==
  <<"https://admin.da.page", "/source/">> \o org \o <<"/">> \o site
    \o FullPath(documentPath)

\* importToDA() throwing an error that does not name the status
importToDAResultNoStatus(org, site, documentPath, resp) ==
  IF resp.net = "fail"
  THEN [success |-> FALSE, url |-> <<>>, error |-> NetworkErrorMessage]
  ELSE IF ~HttpOk(resp)
  THEN [success |-> FALSE, url |-> <<>>, error |-> <<"API request failed">>]
  ELSE [success |-> TRUE,
        url |-> PreviewBaseUrl \o <<"/form#/">> \o org \o <<"/">> \o site \o documentPath,
        error |-> <<>>]

\* importToDA() building the preview address from fullPath
importToDAResultFullPath(org, site, documentPath, resp) ==
  IF resp.net = "fail"
  THEN [success |-> FALSE, url |-> <<>>, error |-> NetworkErrorMessage]
  ELSE IF ~HttpOk(resp)
  THEN [success |-> FALSE, url |-> <<>>,
        error |-> <<"API request failed: ">> \o StatusCode(resp.status)
                    \o <<" ">> \o resp.statusText]
  ELSE [success |-> TRUE,
        url |-> PreviewBaseUrl \o <<"/form#/">> \o org \o <<"/">> \o site
                  \o FullPath(documentPath),
        error |-> <<>>]

\* the result of importToDA(org, site, documentPath, htmlContent, token)
\* when the upload is answered by resp
importToDAResult(org, site, documentPath, resp) ==
  IF resp.net = "fail"
  THEN [success |-> FALSE, url |-> <<>>, error |-> NetworkErrorMessage]
  ELSE IF ~HttpOk(resp)
  THEN [success |-> FALSE, url |-> <<>>,
        error |-> <<"API request failed: ">> \o StatusCode(resp.status)
                    \o <<" ">> \o resp.statusText]
  ELSE [success |-> TRUE,
        url |-> PreviewBaseUrl \o <<"/form#/">> \o org \o <<"/">> \o site \o documentPath,
        error |-> <<>>]

(***************************************************************************)
(* utils/validators.js                                                     *)
(***************************************************************************)
\* new Validator(schema).validate(jsonData) of the validation library, on
\* the three schema documents of the model: [throws, valid, errors]
ValidatorValidate(schema, jsonData) ==
  IF schema = JsonValue(SchemaNull)
  THEN [throws |-> TRUE, valid |-> FALSE, errors |-> <<>>]
  ELSE IF /\ schema = JsonValue(SchemaRequireB)
          /\ IsObject(jsonData)
          /\ <<"b">> \notin ObjectKeys(jsonData)
  THEN [throws |-> FALSE, valid |-> FALSE,
        errors |-> << [error |-> <<"Instance does not have required property \"b\".">>,
                       instanceLocation |-> <<"#">>] >>]
  ELSE [throws |-> FALSE, valid |-> TRUE, errors |-> <<>>]

ValidatorThrowMessage == <<"Cannot destructure property of null">>

\* the second try block of validateAgainstSchema: result is what
\* validator.validate(jsonData) did
ValidatorOutcome(jsonData, result) ==
  IF result.throws
  THEN [valid |-> FALSE, data |-> <<>>, hasErrors |-> TRUE,
        errors |-> << [message |-> ValidatorThrowMessage, path |-> <<>>] >>,
        error |-> <<>>]
  ELSE IF result.valid
  THEN [valid |-> TRUE, data |-> jsonData, hasErrors |-> FALSE,
        errors |-> <<>>, error |-> <<>>]
  ELSE [valid |-> FALSE, data |-> <<>>, hasErrors |-> TRUE,
        errors |-> [i \in 1..Len(result.errors) |->
                      [message |-> result.errors[i].error,
                       path |-> result.errors[i].instanceLocation]],
        error |-> <<>>]

ValidatedData(jsonData, schema) ==
  ValidatorOutcome(jsonData, ValidatorValidate(schema, jsonData))

\* validateAgainstSchema(jsonString, schema); hasErrors says that the
\* result has an errors property
validateAgainstSchema(jsonString, schema) ==
  IF ~Truthy(Trim(jsonString))
  THEN [valid |-> FALSE, data |-> <<>>, hasErrors |-> FALSE, errors |-> <<>>,
        error |-> <<"JSON data is required">>]
  ELSE IF ~JsonParses(jsonString)
  THEN [valid |-> FALSE, data |-> <<>>, hasErrors |-> FALSE, errors |-> <<>>,
        error |-> <<"Invalid JSON: ">> \o ParseErrorMessage]
  ELSE ValidatedData(JsonValue(jsonString), schema)

(***************************************************************************)
(* import-sc.js: the state of the ImportStructuredContent element, the     *)
(* pending timers of its debounced loader, and its suspended calls.        *)
(***************************************************************************)
VARIABLES
  _schemas,        \* Schema Reference mapping: name -> [name, path, modified]
  _alert,          \* Alert State
  _editor,         \* [view, doc]: whether the editor exists, and its content
  _org, _site, _documentPath, _schemaName,
  timers,          \* remaining time of each pending setTimeout, oldest first
  timeout,         \* debounce's handle names a pending timer (the newest)
  loads,           \* catalog requests in flight, in the order issued
  acts,            \* Validate / Import calls suspended on a request
  sinceEdit,       \* time since the last edit of org or site, up to the window
  staleWrite,      \* _schemas was last written by a superseded response
  events,          \* edits and clicks made so far
  burst,           \* edits of org or site since a timer last fired
  alertBy,         \* the handler that wrote _alert last
  util             \* a call of a utility function made outside the element

form == <<_org, _site, _documentPath, _schemaName, _editor>>
element == <<_schemas, _alert, _editor, _org, _site, _documentPath, _schemaName,
             timers, timeout, loads, acts, sinceEdit, staleWrite, events, burst, alertBy>>
vars == <<element, util>>

OrgValues == {<<>>, <<"a">>, <<"b">>}
SiteValues == {<<>>, <<"s">>}
PathValues == {<<>>, <<" ">>, <<"/", "p">>}

TextInitial == <<"{", "}">>
TextBlank == <<" ">>
TextBroken == <<"{">>
TextB == <<"{", "\"", "b", "\"", ":", " ", "1", "}">>
EditorTexts == {TextInitial, TextBlank, TextBroken, TextB}

NoLink == [url |-> <<>>, text |-> <<>>]

Alert(type, message) ==
  [type |-> type, message |-> message, hasErrors |-> FALSE, errors |-> <<>>,
   hasLink |-> FALSE, link |-> NoLink]

\* this._alert = null
NoAlert == Alert("null", <<>>)

Min(a, b) == IF a <= b THEN a ELSE b

\* getEditorContent()
\* getEditorContent() returning the text the editor was created with
getEditorContentStale == IF _editor.view THEN TextInitial ELSE <<>>

getEditorContent == IF _editor.view THEN _editor.doc ELSE <<>>

\* canValidate comparing documentPath without trimming it
canValidateUntrimmedPath ==
  /\ DOMAIN _schemas # {}
  /\ Truthy(Trim(_org))
  /\ Truthy(Trim(_site))
  /\ Truthy(_documentPath)
  /\ Truthy(Trim(_schemaName))
  /\ Truthy(Trim(getEditorContent))

\* get canValidate()
canValidate ==
  /\ DOMAIN _schemas # {}
  /\ Truthy(Trim(_org))
  /\ Truthy(Trim(_site))
  /\ Truthy(Trim(_documentPath))
  /\ Truthy(Trim(_schemaName))
  /\ Truthy(Trim(getEditorContent))

\* canImport without its JSON.parse attempt
canImportUnparsed == canValidate

\* get canImport()
canImport == canValidate /\ JsonParses(getEditorContent)

\* formatValidationErrors(errors)
formatValidationErrors(errors) ==
  [i \in 1..Len(errors) |->
     [path |-> IF Truthy(errors[i].path) /\ errors[i].path # <<"#">>
               THEN errors[i].path ELSE <<"Root">>,
      message |-> errors[i].message]]

Invalid(error) ==
  [valid |-> FALSE, data |-> <<>>, hasErrors |-> FALSE, errors |-> <<>>, error |-> error]

\* performValidation() after its await: schemaResult is what fetchSchema
\* returned, the editor content is read now
performValidationReturn(validationResult) ==
  IF ~validationResult.valid
  THEN IF validationResult.hasErrors
       THEN [valid |-> FALSE, data |-> <<>>, hasErrors |-> TRUE,
             errors |-> formatValidationErrors(validationResult.errors),
             error |-> <<>>]
       ELSE Invalid(validationResult.error)
  ELSE [valid |-> TRUE, data |-> validationResult.data, hasErrors |-> FALSE,
        errors |-> <<>>, error |-> <<>>]

performValidationResume(schemaResult) ==
  IF ~schemaResult.success
  THEN Invalid(<<"Failed to load schema: ">> \o schemaResult.error)
  ELSE performValidationReturn(
         validateAgainstSchema(getEditorContent, schemaResult.schema))

SchemaErrorsAlert(validation) ==
  [type |-> "error",
   message |-> <<"JSON validation failed against the \"">> \o _schemaName
                 \o <<"\" schema:">>,
   hasErrors |-> TRUE, errors |-> validation.errors,
   hasLink |-> TRUE,
   link |-> [url |-> <<"https://da.live/apps/schema#/">> \o _org \o <<"/">> \o _site
                       \o <<"/.da/forms/schemas/">> \o _schemaName,
             text |-> <<"Edit Schema">>]]

\* the alert handleValidate sets once performValidation has returned
ValidateAlert(validation) ==
  IF validation.valid
  THEN Alert("success", <<"JSON is valid and matches the \"">> \o _schemaName
                          \o <<"\" schema!">>)
  ELSE IF validation.hasErrors THEN SchemaErrorsAlert(validation)
  ELSE Alert("error", validation.error)

\* the alert handleSubmit sets when performValidation has returned invalid
SubmitInvalidAlert(validation) ==
  IF validation.hasErrors THEN SchemaErrorsAlert(validation)
  ELSE Alert("error", validation.error)

ValidatingAlert == Alert("info", <<"Validating against schema...">>)
ImportingAlert == Alert("info", <<"Importing content...">>)

Call(kind, pc, path, org, site, documentPath, html) ==
  [kind |-> kind, pc |-> pc, path |-> path, org |-> org, site |-> site,
   documentPath |-> documentPath, html |-> html]

RemoveAt(seq, i) == SubSeq(seq, 1, i - 1) \o SubSeq(seq, i + 1, Len(seq))

\* no utility function is being called
NoResponse ==
  [net |-> "none", status |-> 0, json |-> FALSE, isArray |-> FALSE, items |-> <<>>,
   hasChildren |-> FALSE, children |-> <<>>]

NoCall ==
  [fn |-> "none", pc |-> "done", args |-> <<>>, out |-> <<>>, requests |-> <<>>,
   resp |-> NoResponse]

\* the element after its constructor
constructed ==
  /\ _schemas = NoSchemas
  /\ _alert = NoAlert
  /\ _editor = [view |-> FALSE, doc |-> <<>>]
  /\ _org = <<>>
  /\ _site = <<>>
  /\ _documentPath = <<>>
  /\ _schemaName = <<>>
  /\ timers = <<>>
  /\ timeout = FALSE
  /\ loads = <<>>
  /\ acts = <<>>
  /\ sinceEdit = DebounceWait
  /\ staleWrite = FALSE
  /\ events = 0
  /\ burst = 0
  /\ alertBy = "constructor"

Init == constructed /\ util = NoCall

\* loadSchemas() up to its await: returns at once when org or site is
\* empty, else issues the listing request
loadSchemasCall ==
  IF ~Truthy(_org) \/ ~Truthy(_site)
  THEN loads' = loads
  ELSE loads' = Append(loads, [org |-> _org, site |-> _site, superseded |-> FALSE])

\* firstUpdated(): loadSchemas() (org and site are still empty), then
\* initCodeMirror()
firstUpdated ==
  /\ ~_editor.view
  /\ loadSchemasCall
  /\ _editor' = [view |-> TRUE, doc |-> TextInitial]
  /\ UNCHANGED <<util, _schemas, _alert, _org, _site, _documentPath, _schemaName,
                 timers, timeout, acts, sinceEdit, staleWrite, events, burst, alertBy>>

\* debounce() without its clearTimeout(timeout)
debouncedLoadSchemasNoClear ==
  /\ timers' = Append(timers, DebounceWait)
  /\ timeout' = TRUE

\* the function debounce() returns: clearTimeout(timeout);
\* timeout = setTimeout(..., wait)
debouncedLoadSchemas ==
  /\ timers' = Append(IF timeout THEN SubSeq(timers, 1, Len(timers) - 1) ELSE timers,
                      DebounceWait)
  /\ timeout' = TRUE

\* handleFieldChange('org' | 'site', value)
handleFieldChangeOrgSite ==
  /\ _editor.view
  /\ events < MaxEvents
  /\ events' = events + 1
  /\ \/ \E value \in OrgValues \ {_org} : _org' = value /\ _site' = _site
     \/ \E value \in SiteValues \ {_site} : _site' = value /\ _org' = _org
  /\ debouncedLoadSchemas
  /\ sinceEdit' = 0
  /\ burst' = burst + 1
  /\ UNCHANGED <<util, _schemas, _alert, _editor, _documentPath, _schemaName, loads, acts,
                 staleWrite, alertBy>>

\* handleFieldChange() emptying the alert as the editor's listener does
handleFieldChangeDocumentPathClearsAlert ==
  /\ _editor.view
  /\ events < MaxEvents
  /\ events' = events + 1
  /\ \E value \in PathValues \ {_documentPath} : _documentPath' = value
  /\ _alert' = NoAlert
  /\ alertBy' = "handleFieldChange"
  /\ UNCHANGED <<util, _schemas, _editor, _org, _site, _schemaName, timers, timeout,
                 loads, acts, sinceEdit, staleWrite, burst>>

\* handleFieldChange('documentPath', value)
handleFieldChangeDocumentPath ==
  /\ _editor.view
  /\ events < MaxEvents
  /\ events' = events + 1
  /\ \E value \in PathValues \ {_documentPath} : _documentPath' = value
  /\ UNCHANGED <<util, _schemas, _alert, _editor, _org, _site, _schemaName, timers, timeout,
                 loads, acts, sinceEdit, staleWrite, burst, alertBy>>

\* handleFieldChange('schemaName', value): the select offers the names of
\* the mapping and the empty value, and is disabled while the mapping is empty
handleFieldChangeSchemaName ==
  /\ _editor.view
  /\ events < MaxEvents
  /\ events' = events + 1
  /\ DOMAIN _schemas # {}
  /\ \E value \in (DOMAIN _schemas \cup {<<>>}) \ {_schemaName} : _schemaName' = value
  /\ UNCHANGED <<util, _schemas, _alert, _editor, _org, _site, _documentPath, timers, timeout,
                 loads, acts, sinceEdit, staleWrite, burst, alertBy>>

\* the updateListener without its this._alert = null
editorDocChangedKeepAlert ==
  /\ _editor.view
  /\ events < MaxEvents
  /\ events' = events + 1
  /\ \E text \in EditorTexts \ {_editor.doc} : _editor' = [_editor EXCEPT !.doc = text]
  /\ UNCHANGED <<util, _schemas, _alert, alertBy, _org, _site, _documentPath, _schemaName,
                 timers, timeout, loads, acts, sinceEdit, staleWrite, burst>>

\* the editor's updateListener, on a change of the document
editorDocChanged ==
  /\ _editor.view
  /\ events < MaxEvents
  /\ events' = events + 1
  /\ \E text \in EditorTexts \ {_editor.doc} : _editor' = [_editor EXCEPT !.doc = text]
  /\ _alert' = NoAlert
  /\ alertBy' = "updateListener"
  /\ UNCHANGED <<util, _schemas, _org, _site, _documentPath, _schemaName, timers, timeout,
                 loads, acts, sinceEdit, staleWrite, burst>>

\* time passes, never past the moment a pending timer is due
Tick ==
  /\ timers # <<>>
  /\ \A i \in 1..Len(timers) : timers[i] > 0
  /\ LET next == CHOOSE t \in {timers[i] : i \in 1..Len(timers)} :
                   \A i \in 1..Len(timers) : t <= timers[i]
         d == Min(TickStep, next)
     IN  /\ timers' = [i \in 1..Len(timers) |-> timers[i] - d]
         /\ sinceEdit' = Min(sinceEdit + d, DebounceWait)
  /\ UNCHANGED <<util, _schemas, _alert, _editor, _org, _site, _documentPath, _schemaName,
                 timeout, loads, acts, staleWrite, events, burst, alertBy>>

\* a timer of the debounced loader is due: () => this.loadSchemas()
timerFires ==
  /\ \E i \in 1..Len(timers) :
       /\ timers[i] = 0
       /\ timers' = RemoveAt(timers, i)
       /\ timeout' = (timeout /\ i # Len(timers))
  /\ (Truthy(_org) /\ Truthy(_site)) => Len(loads) < MaxLoads
  /\ loadSchemasCall
  /\ burst' = 0
  /\ UNCHANGED <<util, _schemas, _alert, _editor, _org, _site, _documentPath, _schemaName,
                 acts, sinceEdit, staleWrite, events, alertBy>>

\* loadSchemas() dropping the response of a request that a later one has
\* overtaken
loadSchemasResumeDiscardStale(i, result) ==
  /\ IF loads[i].superseded
     THEN UNCHANGED <<_schemas, staleWrite, _alert, alertBy>>
     ELSE IF result.success
     THEN /\ _schemas' = result.schemas
          /\ staleWrite' = loads[i].superseded
          /\ IF DOMAIN result.schemas = {}
             THEN /\ _alert' = Alert("warning", <<"No schemas found">>)
                  /\ alertBy' = "loadSchemas"
             ELSE UNCHANGED <<_alert, alertBy>>
     ELSE /\ _alert' = Alert("error", result.error)
          /\ alertBy' = "loadSchemas"
          /\ UNCHANGED <<_schemas, staleWrite>>
  /\ loads' = RemoveAt([j \in 1..Len(loads) |->
                          IF j < i THEN [loads[j] EXCEPT !.superseded = TRUE]
                          ELSE loads[j]], i)
  /\ UNCHANGED <<util, _editor, _org, _site, _documentPath, _schemaName, timers, timeout,
                 acts, sinceEdit, events, burst>>

\* loadSchemas() without its warning for an empty mapping
loadSchemasResumeNoWarning(i, result) ==
  /\ IF result.success
     THEN /\ _schemas' = result.schemas
          /\ staleWrite' = loads[i].superseded
          /\ UNCHANGED <<_alert, alertBy>>
     ELSE /\ _alert' = Alert("error", result.error)
          /\ alertBy' = "loadSchemas"
          /\ UNCHANGED <<_schemas, staleWrite>>
  /\ loads' = RemoveAt([j \in 1..Len(loads) |->
                          IF j < i THEN [loads[j] EXCEPT !.superseded = TRUE]
                          ELSE loads[j]], i)
  /\ UNCHANGED <<util, _editor, _org, _site, _documentPath, _schemaName, timers, timeout,
                 acts, sinceEdit, events, burst>>

\* loadSchemas() adding the entries of the response to the mapping it has
loadSchemasResumeMerge(i, result) ==
  /\ IF result.success
     THEN /\ _schemas' = result.schemas @@ _schemas
          /\ staleWrite' = loads[i].superseded
          /\ IF DOMAIN result.schemas = {}
             THEN /\ _alert' = Alert("warning", <<"No schemas found">>)
                  /\ alertBy' = "loadSchemas"
             ELSE UNCHANGED <<_alert, alertBy>>
     ELSE /\ _alert' = Alert("error", result.error)
          /\ alertBy' = "loadSchemas"
          /\ UNCHANGED <<_schemas, staleWrite>>
  /\ loads' = RemoveAt([j \in 1..Len(loads) |->
                          IF j < i THEN [loads[j] EXCEPT !.superseded = TRUE]
                          ELSE loads[j]], i)
  /\ UNCHANGED <<util, _editor, _org, _site, _documentPath, _schemaName, timers, timeout,
                 acts, sinceEdit, events, burst>>

\* loadSchemas() after its await, for the i-th request in flight
loadSchemasResume(i, result) ==
  /\ IF result.success
     THEN /\ _schemas' = result.schemas
          /\ staleWrite' = loads[i].superseded
          /\ IF DOMAIN result.schemas = {}
             THEN /\ _alert' = Alert("warning", <<"No schemas found">>)
                  /\ alertBy' = "loadSchemas"
             ELSE UNCHANGED <<_alert, alertBy>>
     ELSE /\ _alert' = Alert("error", result.error)
          /\ alertBy' = "loadSchemas"
          /\ UNCHANGED <<_schemas, staleWrite>>
  /\ loads' = RemoveAt([j \in 1..Len(loads) |->
                          IF j < i THEN [loads[j] EXCEPT !.superseded = TRUE]
                          ELSE loads[j]], i)
  /\ UNCHANGED <<util, _editor, _org, _site, _documentPath, _schemaName, timers, timeout,
                 acts, sinceEdit, events, burst>>

\* the listing request of the i-th call in flight is answered
loadSchemasResolves ==
  \E i \in 1..Len(loads) :
    \E resp \in CatalogResponses(loads[i].org, loads[i].site) :
      loadSchemasResume(i, loadSchemasResult(loads[i].org, loads[i].site, resp))

\* performValidation() comes to its await: a schema is selected and the
\* mapping has it
SchemaSelected == Truthy(_schemaName) /\ _schemaName \in DOMAIN _schemas

\* what performValidation() returns before its await, without a schema
performValidationEarly ==
  IF ~Truthy(_schemaName) THEN Invalid(<<"Please select a schema first">>)
  ELSE Invalid(<<"Selected schema not found">>)

\* performValidation() up to its await, called by a handler of the given
\* kind: it returns at once without a schema (the handler then sets the
\* alert whenInvalid), else it issues the schema request
performValidationCall(kind, whenInvalid) ==
  IF ~SchemaSelected
  THEN /\ _alert' = whenInvalid
       /\ acts' = acts
  ELSE /\ _alert' = ValidatingAlert
       /\ acts' = Append(acts, Call(kind, "fetch", _schemas[_schemaName].path,
                                    <<>>, <<>>, <<>>, <<>>))

\* handleValidate() up to the await inside performValidation(); the button
\* is enabled by canValidate
handleValidate ==
  /\ _editor.view
  /\ canValidate
  /\ Len(acts) < MaxActs
  /\ events < MaxEvents
  /\ events' = events + 1
  /\ performValidationCall("validate", ValidateAlert(performValidationEarly))
  /\ alertBy' = "handleValidate"
  /\ UNCHANGED <<util, _schemas, _editor, _org, _site, _documentPath, _schemaName, timers,
                 timeout, loads, sinceEdit, staleWrite, burst>>

\* handleValidate() after performValidation() has returned
handleValidateResume(k, validation) ==
  /\ acts[k].kind = "validate"
  /\ acts[k].pc = "fetch"
  /\ _alert' = ValidateAlert(validation)
  /\ acts' = RemoveAt(acts, k)
  /\ alertBy' = "handleValidate"
  /\ UNCHANGED <<util, _schemas, _editor, _org, _site, _documentPath, _schemaName, timers,
                 timeout, loads, sinceEdit, staleWrite, events, burst>>

\* handleSubmit(event) up to the await inside performValidation(); the
\* submit button is enabled by canImport
handleSubmit ==
  /\ _editor.view
  /\ canImport
  /\ Len(acts) < MaxActs
  /\ events < MaxEvents
  /\ events' = events + 1
  /\ performValidationCall("submit", SubmitInvalidAlert(performValidationEarly))
  /\ alertBy' = "handleSubmit"
  /\ UNCHANGED <<util, _schemas, _editor, _org, _site, _documentPath, _schemaName, timers,
                 timeout, loads, sinceEdit, staleWrite, burst>>

\* handleSubmit(event) without the return that ends it on an invalid result
handleSubmitValidatedNoReturn(k, validation) ==
  /\ acts[k].kind = "submit"
  /\ acts[k].pc = "fetch"
  /\ _alert' = ImportingAlert
  /\ acts' = [acts EXCEPT ![k] =
                Call("submit", "publish", <<>>, _org, _site, _documentPath,
                     generateStructuredHTML(_schemaName, validation.data))]
  /\ alertBy' = "handleSubmit"
  /\ UNCHANGED <<util, _schemas, _editor, _org, _site, _documentPath, _schemaName, timers,
                 timeout, loads, sinceEdit, staleWrite, events, burst>>

\* handleSubmit(event) after performValidation() has returned, up to the
\* await of importToDA()
handleSubmitValidated(k, validation) ==
  /\ acts[k].kind = "submit"
  /\ acts[k].pc = "fetch"
  /\ IF ~validation.valid
     THEN /\ _alert' = SubmitInvalidAlert(validation)
          /\ acts' = RemoveAt(acts, k)
     ELSE /\ _alert' = ImportingAlert
          /\ acts' = [acts EXCEPT ![k] =
                        Call("submit", "publish", <<>>, _org, _site, _documentPath,
                             generateStructuredHTML(_schemaName, validation.data))]
  /\ alertBy' = "handleSubmit"
  /\ UNCHANGED <<util, _schemas, _editor, _org, _site, _documentPath, _schemaName, timers,
                 timeout, loads, sinceEdit, staleWrite, events, burst>>

\* handleSubmit(event) when importToDA() rejects instead of returning its
\* failure: the handler ends there and the alert stays as it was
handleSubmitImportedUncaught(k, result) ==
  /\ acts[k].kind = "submit"
  /\ acts[k].pc = "publish"
  /\ IF result.success
     THEN /\ _alert' = [type |-> "success",
                        message |-> <<"Content imported successfully! ">>,
                        hasErrors |-> FALSE, errors |-> <<>>, hasLink |-> TRUE,
                        link |-> [url |-> result.url, text |-> <<"View in Editor">>]]
          /\ alertBy' = "handleSubmit"
     ELSE UNCHANGED <<_alert, alertBy>>
  /\ acts' = RemoveAt(acts, k)
  /\ UNCHANGED <<util, _schemas, _editor, _org, _site, _documentPath, _schemaName, timers,
                 timeout, loads, sinceEdit, staleWrite, events, burst>>

\* handleSubmit(event) after importToDA() has returned
handleSubmitImported(k, result) ==
  /\ acts[k].kind = "submit"
  /\ acts[k].pc = "publish"
  /\ _alert' = IF result.success
               THEN [type |-> "success",
                     message |-> <<"Content imported successfully! ">>,
                     hasErrors |-> FALSE, errors |-> <<>>, hasLink |-> TRUE,
                     link |-> [url |-> result.url, text |-> <<"View in Editor">>]]
               ELSE Alert("error", <<"Import failed: ">> \o result.error)
  /\ acts' = RemoveAt(acts, k)
  /\ alertBy' = "handleSubmit"
  /\ UNCHANGED <<util, _schemas, _editor, _org, _site, _documentPath, _schemaName, timers,
                 timeout, loads, sinceEdit, staleWrite, events, burst>>

\* performValidation() when the schema request is answered by resp
performValidationResult(resp) == performValidationResume(fetchSchemaResult(resp))

\* the schema request of the k-th suspended call is answered
schemaFetchResolves ==
  \E k \in 1..Len(acts) : \E resp \in SchemaResponses :
    \/ handleValidateResume(k, performValidationResult(resp))
    \/ handleSubmitValidated(k, performValidationResult(resp))

\* the upload of the k-th suspended call is answered
publishResolves ==
  \E k \in 1..Len(acts) : \E resp \in PublishResponses :
    handleSubmitImported(k, importToDAResult(acts[k].org, acts[k].site,
                                             acts[k].documentPath, resp))

Next ==
  \/ firstUpdated
  \/ handleFieldChangeOrgSite
  \/ handleFieldChangeDocumentPath
  \/ handleFieldChangeSchemaName
  \/ editorDocChanged
  \/ Tick
  \/ timerFires
  \/ loadSchemasResolves
  \/ handleValidate
  \/ handleSubmit
  \/ schemaFetchResolves
  \/ publishResolves

Spec == Init /\ [][Next]_vars

(***************************************************************************)
(* The utility functions called on their own: the document generator on a  *)
(* schema name and a value, and the reading of the generated document the  *)
(* way fetchSchema() reads a stored document (its pre code element's text,  *)
(* parsed as JSON).                                                        *)
(***************************************************************************)
\* longest schema name, and longest string inside a value, that is generated
MaxNameLen == 1
MaxTextLen == 2

NameAlphabet == {"a", "<", ">", "&", "\""}
TextAlphabet == {"a", "<", ">", "&"}

Strings(alphabet, n) == UNION {[1..m -> alphabet] : m \in 0..n}

\* texts that read like entities
EntityTexts == {<<"&", "l", "t", ";">>, <<"&", "a", "m", "p", ";">>}

UtilNames == Strings(NameAlphabet, MaxNameLen)
UtilTexts == Strings(TextAlphabet, MaxTextLen) \cup EntityTexts

Quoted(str) == <<"\"">> \o str \o <<"\"">>

\* JSON values (as their token text) that hold the string str: as the value
\* itself, as a member's value, as a key, as an element, and nested
ValuesWith(str) ==
  { Quoted(str),
    <<"{">> \o Quoted(<<"k">>) \o <<":">> \o Quoted(str) \o <<"}">>,
    <<"{">> \o Quoted(str) \o <<":", "1", "}">>,
    <<"[">> \o Quoted(str) \o <<",", "t", "r", "u", "e", "]">>,
    <<"{">> \o Quoted(<<"a">>) \o <<":", "{">> \o Quoted(str) \o <<":", "[", "]", "}", "}">> }

UtilValues == UNION {ValuesWith(str) : str \in UtilTexts}

RECURSIVE IndexOf(_, _, _)
\* String.prototype.indexOf(pattern, from), 1-based; 0 when there is none
IndexOf(str, pattern, from) ==
  IF from + Len(pattern) - 1 > Len(str) THEN 0
  ELSE IF SubSeq(str, from, from + Len(pattern) - 1) = pattern THEN from
  ELSE IndexOf(str, pattern, from + 1)

\* the markup inside the code element of the document's pre element
codeMarkup(html, open) ==
  IF open = 0 THEN <<>>
  ELSE SubSeq(html, open + Len(PreCodeOpen),
              IndexOf(html, CodeClose, open + Len(PreCodeOpen)) - 1)

\* doc.querySelector('pre code'), as the markup it was parsed from
preCode(html) == codeMarkup(html, IndexOf(html, PreCodeOpen, 1))

RECURSIVE textContent(_)
\* the text of parsed markup: the HTML parser reads character references
textContent(markup) ==
  IF markup = <<>> THEN <<>>
  ELSE IF Len(markup) >= 5 /\ SubSeq(markup, 1, 5) = <<"&", "a", "m", "p", ";">>
  THEN <<"&">> \o textContent(SubSeq(markup, 6, Len(markup)))
  ELSE IF Len(markup) >= 4 /\ SubSeq(markup, 1, 4) = <<"&", "l", "t", ";">>
  THEN <<"<">> \o textContent(SubSeq(markup, 5, Len(markup)))
  ELSE IF Len(markup) >= 4 /\ SubSeq(markup, 1, 4) = <<"&", "g", "t", ";">>
  THEN <<">">> \o textContent(SubSeq(markup, 5, Len(markup)))
  ELSE IF Len(markup) >= 6 /\ SubSeq(markup, 1, 6) = <<"&", "q", "u", "o", "t", ";">>
  THEN <<"\"">> \o textContent(SubSeq(markup, 7, Len(markup)))
  ELSE <<Head(markup)>> \o textContent(Tail(markup))

\* JSON.parse(text): the value, or the SyntaxError it throws
jsonParse(text) ==
  IF JsonParses(text) THEN [ok |-> TRUE, value |-> JsonValue(text)]
  ELSE [ok |-> FALSE, value |-> <<>>]

\* the calls of generateStructuredHTML(schemaName, jsonData)
GenerateCalls ==
  { [fn |-> "generateStructuredHTML", pc |-> "call",
     args |-> [schemaName |-> schemaName, jsonData |-> jsonData],
     out |-> <<>>, requests |-> <<>>, resp |-> NoResponse] :
      schemaName \in UtilNames, jsonData \in UtilValues }

\* generateStructuredHTML(schemaName, jsonData) returns the document
callGenerateStructuredHTML ==
  /\ util.fn = "generateStructuredHTML" /\ util.pc = "call"
  /\ util' = [util EXCEPT !.pc = "html",
                          !.out = generateStructuredHTML(util.args.schemaName,
                                                         util.args.jsonData)]
  /\ UNCHANGED element

\* the document is parsed and its pre code element found
readPreCode ==
  /\ util.fn = "generateStructuredHTML" /\ util.pc = "html"
  /\ util' = [util EXCEPT !.pc = "markup", !.out = preCode(util.out)]
  /\ UNCHANGED element

\* schemaElement.textContent
readTextContent ==
  /\ util.fn = "generateStructuredHTML" /\ util.pc = "markup"
  /\ util' = [util EXCEPT !.pc = "text", !.out = textContent(util.out)]
  /\ UNCHANGED element

\* JSON.parse(schemaElement.textContent)
readJsonParse ==
  /\ util.fn = "generateStructuredHTML" /\ util.pc = "text"
  /\ util' = [util EXCEPT !.pc = "done", !.out = jsonParse(util.out)]
  /\ UNCHANGED element

(***************************************************************************)
(* The two catalog clients called on their own: loadSchemas() of           *)
(* utils/api.js, and loadSchemas() of the utility module (unnamed/part_000),*)
(* which lists the .json children of the folder .da/schemas.               *)
(***************************************************************************)
DotJson == <<".", "j", "s", "o", "n">>

\* String.prototype.replace(pattern, by), the first match being at index i
ReplaceAt(str, i, pattern, by) ==
  IF i = 0 THEN str
  ELSE SubSeq(str, 1, i - 1) \o by \o SubSeq(str, i + Len(pattern), Len(str))

ReplaceFirst(str, pattern, by) == ReplaceAt(str, IndexOf(str, pattern, 1), pattern, by)

\* child.name && child.name.endsWith('.json')
IsSchemaChild(child) == Truthy(child.name) /\ EndsWith(child.name, DotJson)

\* child.name.replace('.json', '')
SchemaNameOfChild(child) == ReplaceFirst(child.name, DotJson, <<>>)

\* the last child of the listing that sets schemas[n]
LastChild(children, n) ==
  children[CHOOSE i \in 1..Len(children) :
             /\ IsSchemaChild(children[i]) /\ SchemaNameOfChild(children[i]) = n
             /\ \A j \in i + 1..Len(children) :
                  ~(IsSchemaChild(children[j]) /\ SchemaNameOfChild(children[j]) = n)]

ChildReference(n, child) == [name |-> n, path |-> child.path, modified |-> child.modified]

SchemasOfChildren(children) ==
  [n \in {SchemaNameOfChild(children[i]) :
            i \in {j \in 1..Len(children) : IsSchemaChild(children[j])}} |->
     ChildReference(n, LastChild(children, n))]

\* the address the utility module's loadSchemas() requests the listing from
utilsSchemasUrl(org, site) ==
  <<"https://admin.da.page/list">>
    \o (IF Truthy(site) THEN <<"/">> \o org \o <<"/">> \o site ELSE <<"/">> \o org)
    \o <<"/.da/schemas">>

\* the result of the utility module's loadSchemas(org, site, token) when the
\* listing request is answered by resp
utilsLoadSchemasResult(org, site, resp) ==
  IF ~Truthy(org)
  THEN [success |-> FALSE, schemas |-> NoSchemas, error |-> <<"Organization is required">>]
  ELSE IF resp.net = "fail"
  THEN [success |-> FALSE, schemas |-> NoSchemas, error |-> NetworkErrorMessage]
  ELSE IF ~HttpOk(resp)
  THEN [success |-> FALSE, schemas |-> NoSchemas,
        error |-> <<"Failed to load schemas: ">> \o StatusCode(resp.status)]
  ELSE IF ~resp.json
  THEN [success |-> FALSE, schemas |-> NoSchemas, error |-> ParseErrorMessage]
  ELSE [success |-> TRUE,
        schemas |-> IF resp.hasChildren THEN SchemasOfChildren(resp.children)
                    ELSE NoSchemas,
        error |-> <<>>]

Child(org, site, fileName) ==
  [name |-> fileName, path |-> RemotePath(org, site, fileName), modified |-> 1]

\* the children of the bodies { children: [...] } of the listing endpoint
ChildListings(org, site) ==
  { <<>>,
    <<Child(org, site, SchemaX \o DotJson)>>,
    <<Child(org, site, <<"r", ".", "m", "d">>), Child(org, site, <<>>)>>,
    <<Child(org, site, SchemaY \o DotJson), Child(org, site, SchemaX)>>,
    <<Child(org, site, SchemaX \o DotJson \o DotJson)>>,
    <<Child(org, site, SchemaX \o DotJson \o SchemaY \o DotJson)>> }

\* an answer to either client: the body is an array of items, an object
\* with children, another JSON value, or no JSON
ListingResponse(net, status, json, isArray, items, hasChildren, children) ==
  [net |-> net, status |-> status, json |-> json, isArray |-> isArray, items |-> items,
   hasChildren |-> hasChildren, children |-> children]

UtilListingResponses(org, site) ==
  { ListingResponse("fail", 0, FALSE, FALSE, <<>>, FALSE, <<>>),
    ListingResponse("ok", 404, FALSE, FALSE, <<>>, FALSE, <<>>),
    ListingResponse("ok", 500, TRUE, FALSE, <<>>, FALSE, <<>>),
    ListingResponse("ok", 200, FALSE, FALSE, <<>>, FALSE, <<>>),
    ListingResponse("ok", 200, TRUE, FALSE, <<>>, FALSE, <<>>) }
  \cup { ListingResponse("ok", 200, TRUE, TRUE, l, FALSE, <<>>) : l \in Listings(org, site) }
  \cup { ListingResponse("ok", 200, TRUE, FALSE, <<>>, TRUE, l) :
           l \in ChildListings(org, site) }

ListingClients == {"loadSchemas", "utilsLoadSchemas"}

\* the calls of the two clients
ListingCalls ==
  { [fn |-> fn, pc |-> "call", args |-> [org |-> org, site |-> site],
     out |-> <<>>, requests |-> <<>>, resp |-> NoResponse] :
      fn \in ListingClients, org \in OrgValues, site \in SiteValues }

resultOf(fn, org, site, resp) ==
  IF fn = "loadSchemas" THEN loadSchemasResult(org, site, resp)
  ELSE utilsLoadSchemasResult(org, site, resp)

urlOf(fn, org, site) ==
  IF fn = "loadSchemas" THEN SchemasUrl(org, site) ELSE utilsSchemasUrl(org, site)

\* a client is called: it returns at once without an organization, else it
\* requests the listing
callLoadSchemas ==
  /\ util.fn \in ListingClients /\ util.pc = "call"
  /\ IF ~Truthy(util.args.org)
     THEN util' = [util EXCEPT !.pc = "done",
                               !.out = resultOf(util.fn, util.args.org, util.args.site,
                                                NoResponse)]
     ELSE util' = [util EXCEPT !.pc = "fetch",
                               !.requests = <<urlOf(util.fn, util.args.org,
                                                    util.args.site)>>]
  /\ UNCHANGED element

\* the listing request is answered and the client returns
listingResponds ==
  /\ util.fn \in ListingClients /\ util.pc = "fetch"
  /\ \E resp \in UtilListingResponses(util.args.org, util.args.site) :
       util' = [util EXCEPT !.pc = "done", !.resp = resp,
                            !.out = resultOf(util.fn, util.args.org, util.args.site, resp)]
  /\ UNCHANGED element

UtilInit == constructed /\ util \in GenerateCalls \cup ListingCalls

UtilNext ==
  \/ callGenerateStructuredHTML
  \/ readPreCode
  \/ readTextContent
  \/ readJsonParse
  \/ callLoadSchemas
  \/ listingResponds

UtilSpec == UtilInit /\ [][UtilNext]_vars

(***************************************************************************)
(* Claims.                                                                 *)
(***************************************************************************)
\* not blank after trimming, said without trim()
NonBlank(str) == \E i \in 1..Len(str) : ~IsWs(str[i])

\* the step issues the upload of the k-th suspended call
PublishIssued(k) ==
  /\ acts[k].pc = "fetch"
  /\ Len(acts') = Len(acts)
  /\ acts'[k].pc = "publish"

Publishing(calls) == {k \in 1..Len(calls) : calls[k].pc = "publish"}

\* C1: in every reachable state, when schemaName is not a key of the Schema
\* Reference mapping, the Validate and the Import control are both disabled.
C1_UnknownSchemaDisablesControls ==
  _schemaName \notin DOMAIN _schemas => ~canValidate /\ ~canImport

\* C2: whenever an Import action issues its upload, schemaName is at that
\* moment a key of the current Schema Reference mapping.
C2_PublishOnlyForCataloguedSchema ==
  [][\A k \in 1..Len(acts) :
       PublishIssued(k) => _schemaName' \in DOMAIN _schemas']_vars

\* C3: an Import action issues its upload only after its own validation
\* returned success and for the data validated; when the validation fails
\* (or finds no schema to fetch) it sets the error alert Validate would set,
\* issues no upload and ends.
C3_Step ==
  /\ \A k \in 1..Len(acts) :
       PublishIssued(k) =>
         /\ acts[k].kind = "submit"
         /\ \E resp \in SchemaResponses :
              /\ performValidationResult(resp).valid
              /\ acts'[k].html =
                   generateStructuredHTML(_schemaName, performValidationResult(resp).data)
  /\ Cardinality(Publishing(acts')) > Cardinality(Publishing(acts)) =>
       \E k \in 1..Len(acts) : PublishIssued(k)
  /\ \A k \in 1..Len(acts) : \A resp \in SchemaResponses :
       ( /\ handleSubmitValidated(k, performValidationResult(resp))
         /\ ~performValidationResult(resp).valid ) =>
         /\ _alert' = ValidateAlert(performValidationResult(resp))
         /\ _alert'.type = "error"
         /\ acts' = RemoveAt(acts, k)
  /\ (handleSubmit /\ _schemaName \notin DOMAIN _schemas) =>
       /\ _alert' = ValidateAlert(Invalid(<<"Selected schema not found">>))
       /\ _alert'.type = "error"
       /\ acts' = acts

C3_ImportPublishesOnlyAfterValidation == [][C3_Step]_vars

\* an Import action has ended on schema violations, nothing is being uploaded
C3_Witness ==
  /\ alertBy = "handleSubmit"
  /\ _alert.type = "error"
  /\ _alert.hasErrors
  /\ acts = <<>>

\* C4: the edits of org or site made within the quiescence window of one
\* another leave one pending timer, due one full window after the last of
\* them; a timer fires only a full window after the last edit, leaves none
\* pending, and calls loadSchemas() once.
C4_Step ==
  /\ Len(timers') <= 1
  /\ (burst' >= 1) <=> (Len(timers') = 1)
  /\ timers' # <<>> => timers'[1] = DebounceWait - sinceEdit'
  /\ Len(timers') < Len(timers) =>
       /\ sinceEdit = DebounceWait
       /\ burst >= 1
       /\ timers' = <<>>
       /\ loads' \in {loads,
                      Append(loads, [org |-> _org, site |-> _site, superseded |-> FALSE])}

C4_DebounceOneReload == [][C4_Step]_vars

\* two or more edits were made in one burst and their single timer is due
C4_Witness == burst >= 2 /\ timers = <<0>> /\ sinceEdit = DebounceWait

\* C5: a Validate or Import action issues a network request only when there
\* is no input error: the editor content is JSON and no required field is blank.
C5_NoRequestOnInputError ==
  [][Len(acts') > Len(acts) =>
       /\ JsonParses(getEditorContent)
       /\ NonBlank(_org) /\ NonBlank(_site) /\ NonBlank(_documentPath)
       /\ NonBlank(_schemaName)]_vars

\* C6: in every reachable state, when the editor content does not parse as
\* JSON the Import control is disabled.
C6_UnparsableTextDisablesImport == ~JsonParses(getEditorContent) => ~canImport

\* every other condition of the Import control holds, the text is not JSON
C6_Witness == canValidate /\ ~JsonParses(getEditorContent)

\* C7: the Validate control is enabled only if a schema name is chosen, the
\* mapping is not empty and org, site and documentPath are not blank after
\* trimming; the Import control is enabled only if the Validate control is.
C7_ControlsNeedFilledForm ==
  /\ canValidate =>
       /\ Truthy(_schemaName)
       /\ DOMAIN _schemas # {}
       /\ NonBlank(_org) /\ NonBlank(_site) /\ NonBlank(_documentPath)
  /\ canImport => canValidate

\* both controls are enabled
C7_Witness == canValidate /\ canImport

\* C8: the response of a catalog request that a later request has overtaken
\* is applied like any other: a success replaces the mapping, a failure
\* replaces the alert.
C8_Step ==
  \A i \in 1..Len(loads) : \A resp \in CatalogResponses(loads[i].org, loads[i].site) :
    ( /\ loads[i].superseded
      /\ loadSchemasResume(i, loadSchemasResult(loads[i].org, loads[i].site, resp)) ) =>
      IF resp.net = "ok" /\ HttpOk(resp)
      THEN /\ _schemas' = IF resp.isArray THEN SchemasOfListing(resp.items) ELSE NoSchemas
           /\ staleWrite'
      ELSE /\ _alert'.type = "error"
           /\ alertBy' = "loadSchemas"

C8_StaleResponseOverwrites == [][C8_Step]_vars

\* the mapping was written by an overtaken response and lists the schemas
\* of an organization that is no longer the one of the form
C8_Witness ==
  /\ staleWrite
  /\ loads = <<>>
  /\ Truthy(_org) /\ Truthy(_site)
  /\ DOMAIN _schemas # {}
  /\ \A n \in DOMAIN _schemas : _schemas[n].path # RemotePath(_org, _site, n)

\* the listing of resp has no entry recognised as a schema
NoSchemaItems(resp) ==
  resp.isArray =>
    \A j \in 1..Len(resp.items) :
      ~(resp.items[j].name # <<>> /\ resp.items[j].ext = "html")

\* C9: a catalog request that succeeds with no entry recognised as a schema
\* empties the mapping and sets the warning "No schemas found"; while the
\* mapping is empty the Validate and the Import control are disabled.
C9_Step ==
  /\ \A i \in 1..Len(loads) : \A resp \in CatalogResponses(loads[i].org, loads[i].site) :
       ( /\ resp.net = "ok" /\ HttpOk(resp) /\ NoSchemaItems(resp)
         /\ loadSchemasResume(i, loadSchemasResult(loads[i].org, loads[i].site, resp)) ) =>
         /\ NonBlank(loads[i].org) /\ NonBlank(loads[i].site)
         /\ DOMAIN _schemas' = {}
         /\ _alert' = Alert("warning", <<"No schemas found">>)
  /\ DOMAIN _schemas' = {} => ~canValidate' /\ ~canImport'

C9_EmptyCatalogWarnsAndDisables == [][C9_Step]_vars

\* the form is filled and the text is JSON, yet the mapping was emptied
C9_Witness ==
  /\ DOMAIN _schemas = {}
  /\ alertBy = "loadSchemas"
  /\ _alert = Alert("warning", <<"No schemas found">>)
  /\ NonBlank(_org) /\ NonBlank(_site) /\ NonBlank(_documentPath)
  /\ NonBlank(_schemaName)
  /\ JsonParses(getEditorContent)

\* C10: when the upload of an Import action is answered with a status that
\* is not a success, the action ends with an error alert whose message
\* contains the status code, and no field of the form changes.
C10_Step ==
  \A k \in 1..Len(acts) : \A resp \in PublishResponses :
    ( /\ resp.net = "ok" /\ ~HttpOk(resp)
      /\ handleSubmitImported(k, importToDAResult(acts[k].org, acts[k].site,
                                                  acts[k].documentPath, resp)) ) =>
      /\ _alert'.type = "error"
      /\ \E j \in 1..Len(_alert'.message) : _alert'.message[j] = ToString(resp.status)
      /\ form' = form
      /\ acts' = RemoveAt(acts, k)

C10_PublishFailureKeepsForm == [][C10_Step]_vars

\* an Import action has ended on the status 500 of its upload
C10_Witness ==
  /\ alertBy = "handleSubmit"
  /\ _alert.type = "error"
  /\ \E j \in 1..Len(_alert.message) : _alert.message[j] = "500"
  /\ canImport

\* the preview address of a document
PreviewUrl(org, site, documentPath) ==
  <<"https://da-sc--da-live--adobe.aem.live", "/form#/">> \o org \o <<"/">> \o site
    \o documentPath

\* C11: when the upload of an Import action succeeds, the alert becomes a
\* success alert with a link to the preview address, and that address is the
\* fixed base followed by the org, site and documentPath the upload was
\* addressed to, whatever the form holds by then.
C11_Step ==
  \A k \in 1..Len(acts) : \A resp \in PublishResponses :
    ( /\ resp.net = "ok" /\ HttpOk(resp)
      /\ handleSubmitImported(k, importToDAResult(acts[k].org, acts[k].site,
                                                  acts[k].documentPath, resp)) ) =>
      /\ _alert'.type = "success"
      /\ _alert'.hasLink
      /\ _alert'.link.url = PreviewUrl(acts[k].org, acts[k].site, acts[k].documentPath)

C11_PublishSuccessLinksPreview == [][C11_Step]_vars

\* an Import action has succeeded after the form was edited during the
\* upload: the link is not the preview address of the form's fields
C11_Witness ==
  /\ alertBy = "handleSubmit"
  /\ _alert.type = "success"
  /\ _alert.hasLink
  /\ _alert.link.url # PreviewUrl(_org, _site, _documentPath)

\* the resumptions a suspended call has left before it ends
Rank(call) == IF call.kind = "submit" /\ call.pc = "fetch" THEN 2 ELSE 1

RECURSIVE Remaining(_)
Remaining(calls) ==
  IF calls = <<>> THEN 0 ELSE Rank(Head(calls)) + Remaining(Tail(calls))

Settled(alert) == alert.type \in {"success", "error"}

\* the k-th call is resumed with the validation: it ends with a settled
\* alert, or it is an Import action that goes on to its upload
C12_Validated(k, validation) ==
  (handleValidateResume(k, validation) \/ handleSubmitValidated(k, validation)) =>
    \/ acts' = RemoveAt(acts, k) /\ Settled(_alert')
    \/ /\ acts[k].kind = "submit" /\ validation.valid
       /\ Len(acts') = Len(acts) /\ acts'[k].pc = "publish"

\* a step that resumes a suspended call
C12_Resumed ==
  /\ \A k \in 1..Len(acts) : \A resp \in SchemaResponses :
       C12_Validated(k, performValidationResult(resp))
  /\ \A k \in 1..Len(acts) : \A resp \in PublishResponses :
       handleSubmitImported(k, importToDAResult(acts[k].org, acts[k].site,
                                                acts[k].documentPath, resp)) =>
         acts' = RemoveAt(acts, k) /\ Settled(_alert')
  /\ Len(acts') < Len(acts) => Settled(_alert')
  /\ Remaining(acts') < Remaining(acts)

C12_Step ==
  /\ (Len(acts') >= Len(acts) /\ <<timers, loads>>' = <<timers, loads>>
      /\ (handleValidate \/ handleSubmit)) =>
       IF acts' = acts THEN _alert'.type = "error"
       ELSE Len(acts') = Len(acts) + 1 /\ Remaining(acts') > Remaining(acts)
  /\ Len(acts') <= Len(acts) /\ acts' # acts => C12_Resumed

\* no call is left suspended where no answer resumes it, no finished action
\* leaves the in-progress alert behind, and a click on an enabled control is
\* accepted
C12_Responsive ==
  /\ acts = <<>> => _alert.type # "info"
  /\ \A k \in 1..Len(acts) :
       IF acts[k].pc = "fetch"
       THEN acts[k].kind \in {"validate", "submit"}
       ELSE \A resp \in PublishResponses :
              ENABLED handleSubmitImported(k, importToDAResult(acts[k].org, acts[k].site,
                                                               acts[k].documentPath, resp))
  /\ (_editor.view /\ canValidate /\ Len(acts) < MaxActs /\ events < MaxEvents)
       => ENABLED handleValidate

\* C12: every Validate or Import action ends, whatever its schema request
\* and its upload are answered with (success, status, rejected fetch, no
\* code block, malformed schema, validator exception): each answer resumes
\* the call, each resumption brings it nearer its end, and the alert it
\* writes last is a success or an error, never the in-progress info; the
\* controls then accept a further action.
C12_ActionsEndSettled == [][C12_Step]_vars /\ []C12_Responsive

\* an Import action has ended on a rejected upload and Import is enabled again
C12_Witness ==
  /\ acts = <<>>
  /\ alertBy = "handleSubmit"
  /\ _alert = Alert("error", <<"Import failed: ">> \o NetworkErrorMessage)
  /\ canImport

\* C13: a change of the editor content empties the alert in the same step,
\* whatever the alert was, and leaves org, site, documentPath, schemaName and
\* the Schema Reference mapping as they were.
C13_Step ==
  (_editor.view /\ _editor'.doc # _editor.doc) =>
    /\ _alert' = NoAlert
    /\ <<_org, _site, _documentPath, _schemaName, _schemas>>'
         = <<_org, _site, _documentPath, _schemaName, _schemas>>

C13_EditorChangeClearsAlert == [][C13_Step]_vars

\* the editor content was changed while an action was suspended under its
\* in-progress alert: the alert is empty and the action still in flight
C13_Witness ==
  /\ alertBy = "updateListener"
  /\ _alert = NoAlert
  /\ acts # <<>>
  /\ DOMAIN _schemas # {}

\* C14: a step that edits org, site, documentPath or schemaName leaves the
\* alert as it was, and a step of a Validate, Import or catalog-reload
\* handler (each writes the alert, or may) leaves every field of the form,
\* the editor content included, as it was.
C14_Step ==
  /\ <<_org, _site, _documentPath, _schemaName>>' # <<_org, _site, _documentPath, _schemaName>>
       => _alert' = _alert /\ alertBy' = alertBy
  /\ ( \/ acts' # acts
       \/ Len(loads') < Len(loads)
       \/ _alert' # _alert /\ alertBy' \in {"handleValidate", "handleSubmit", "loadSchemas"} )
       => form' = form

C14_AlertAndFormDecoupled == [][C14_Step]_vars

\* a Validate action succeeded and the form was emptied of its documentPath
\* afterwards: the success alert is still shown
C14_Witness ==
  /\ alertBy = "handleValidate"
  /\ _alert.type = "success"
  /\ acts = <<>>
  /\ ~NonBlank(_documentPath)

\* the schema document of resp is malformed, or the validator throws on it
\* for the editor content
SchemaUnusable(resp) ==
  /\ resp.net = "ok" /\ resp.status = 200 /\ resp.hasCode
  /\ \/ ~JsonParses(resp.code)
     \/ /\ JsonParses(getEditorContent)
        /\ ValidatorValidate(JsonValue(resp.code), JsonValue(getEditorContent)).throws

\* the validation is a single free-text error and the alert shown for it a
\* plain error alert
C15_PlainFailure(k, validation) ==
  (handleValidateResume(k, validation) \/ handleSubmitValidated(k, validation)) =>
    /\ ~validation.valid
    /\ ~validation.hasErrors /\ validation.errors = <<>>
    /\ validation.error # <<>>
    /\ _alert' = Alert("error", validation.error)

\* C15: when the schema document is malformed or the validator throws, the
\* validation yields a single free-text error and not a list of violations,
\* and the alert is a plain error alert without a list of field errors.
C15_SchemaFailureIsPlainError ==
  [][Len(acts') <= Len(acts) /\ acts' # acts =>
       \A k \in 1..Len(acts) : \A resp \in SchemaResponses :
         SchemaUnusable(resp) => C15_PlainFailure(k, performValidationResult(resp))]_vars

\* the occurrences of the character c in str
Count(str, c) == Cardinality({i \in 1..Len(str) : str[i] = c})

StartsAt(str, i, pattern) ==
  /\ i + Len(pattern) - 1 <= Len(str)
  /\ SubSeq(str, i, i + Len(pattern) - 1) = pattern

\* every '&' of str begins the entity of one of the escaped characters
OnlyEntities(str) ==
  \A i \in 1..Len(str) :
    str[i] = "&" =>
      \/ StartsAt(str, i, <<"&", "a", "m", "p", ";">>)
      \/ StartsAt(str, i, <<"&", "l", "t", ";">>)
      \/ StartsAt(str, i, <<"&", "g", "t", ";">>)
      \/ StartsAt(str, i, <<"&", "q", "u", "o", "t", ";">>)

\* the document generated for no input at all: what the template itself holds
Template == HtmlHead \o HtmlMiddle \o HtmlTail

\* the text of the inputs of the generator
InputText == util.args.schemaName \o JsonStringify(util.args.jsonData)

C17_GeneratedDocumentRoundTrip ==
  util.fn = "generateStructuredHTML" =>
    /\ util.pc = "text" => util.out = JsonStringify(util.args.jsonData)
    /\ util.pc = "done" => util.out.ok /\ util.out.value = util.args.jsonData

\* a value was read back whose string reads like an entity itself
C17_Witness ==
  /\ util.fn = "generateStructuredHTML" /\ util.pc = "done"
  /\ util.out.ok
  /\ \E i \in 1..Len(util.out.value) :
       StartsAt(util.out.value, i, <<"&", "l", "t", ";">>)

\* the body of resp has no child that the utility module takes for a schema
NoSchemaChildren(resp) ==
  resp.hasChildren =>
    \A j \in 1..Len(resp.children) :
      ~(resp.children[j].name # <<>> /\ EndsWith(resp.children[j].name, DotJson))

\* the listing answered has no entry the called client takes for a schema
NoSchemaEntries ==
  /\ util.resp.net = "ok" /\ util.resp.status = 200 /\ util.resp.json
  /\ IF util.fn = "loadSchemas" THEN NoSchemaItems(util.resp)
     ELSE NoSchemaChildren(util.resp)

\* C18: a call of the catalog client ends with a result and never an
\* exception, whatever the request is answered with; without an organization
\* the result is the failure "Organization is required" and no request is
\* made; a status that is not a success gives a failure whose message holds
\* the status code; a listing without an entry recognised as a schema gives
\* a success with an empty mapping.
C18_ListSchemasResults ==
  util.fn \in ListingClients =>
    /\ util.pc = "done" =>
         /\ util.out.success \in BOOLEAN
         /\ ~util.out.success => util.out.error # <<>>
    /\ util.args.org = <<>> =>
         /\ util.pc # "fetch"
         /\ util.requests = <<>>
         /\ util.pc = "done" =>
              /\ ~util.out.success
              /\ util.out.error = <<"Organization is required">>
    /\ (util.pc = "done" /\ util.resp.net = "ok" /\ util.resp.status \notin 200..299) =>
         /\ ~util.out.success
         /\ \E j \in 1..Len(util.out.error) : util.out.error[j] = ToString(util.resp.status)
    /\ (util.pc = "done" /\ NoSchemaEntries) =>
         /\ util.out.success
         /\ DOMAIN util.out.schemas = {}

\* the utility module's client was answered with children none of which is
\* a schema, and returned a success with an empty mapping
C18_Witness ==
  /\ util.fn = "utilsLoadSchemas" /\ util.pc = "done"
  /\ util.resp.hasChildren /\ util.resp.children # <<>>
  /\ util.out.success
  /\ DOMAIN util.out.schemas = {}

\* the requests of Validate and Import actions that are outstanding
Outstanding == Len(acts)

\* C19: a Validate or Import action starts only when no other Validate or
\* Import action is in flight, so that at most one schema request or upload
\* of these actions is outstanding at any moment.
C19_OneActionAtATime ==
  /\ [][Len(acts') > Len(acts) => acts = <<>>]_vars
  /\ [](Outstanding <= 1)

\* resp is a success of the listing request
ListingSucceeds(resp) == resp.net = "ok" /\ resp.status \in 200..299 /\ resp.json

\* the names the listing of resp gives to schemas
ListedNames(resp) ==
  IF resp.isArray
  THEN {resp.items[j].name : j \in {h \in 1..Len(resp.items) :
                                      resp.items[h].name # <<>> /\ resp.items[h].ext = "html"}}
  ELSE {}

\* the mapping holds the entries of the listing of resp and nothing else
ExactlyListed(mapping, resp) ==
  /\ DOMAIN mapping = ListedNames(resp)
  /\ \A n \in DOMAIN mapping :
       \E j \in 1..Len(resp.items) :
         /\ resp.items[j].name = n /\ resp.items[j].ext = "html"
         /\ mapping[n] = [name |-> n, path |-> resp.items[j].path,
                          modified |-> resp.items[j].lastModified]

\* C20: the Schema Reference mapping changes only in a step in which a
\* catalog request returns success; such a step leaves in it exactly the
\* entries of that response; a catalog request that fails, and a reload
\* skipped because org or site is empty, leave the mapping as it was.
C20_Step ==
  /\ _schemas' # _schemas =>
       \E i \in 1..Len(loads) : \E resp \in CatalogResponses(loads[i].org, loads[i].site) :
         /\ ListingSucceeds(resp)
         /\ loadSchemasResume(i, loadSchemasResult(loads[i].org, loads[i].site, resp))
  /\ Len(loads') < Len(loads) =>
       \A i \in 1..Len(loads) : \A resp \in CatalogResponses(loads[i].org, loads[i].site) :
         loadSchemasResume(i, loadSchemasResult(loads[i].org, loads[i].site, resp)) =>
           IF ListingSucceeds(resp) THEN ExactlyListed(_schemas', resp)
           ELSE _schemas' = _schemas
  /\ (Len(timers') < Len(timers) /\ (_org = <<>> \/ _site = <<>>)) =>
       loads' = loads /\ _schemas' = _schemas

C20_MappingReplacedWholesale == [][C20_Step]_vars

\* the mapping lists y alone while the form still names x, chosen from the
\* mapping that was replaced
C20_Witness ==
  /\ DOMAIN _schemas = {<<"y">>}
  /\ _schemaName = <<"x">>
  /\ loads = <<>>

\* the file name without its last Len(suffix) characters
WithoutSuffix(fileName, suffix) == SubSeq(fileName, 1, Len(fileName) - Len(suffix))

\* the file names of the answered listing that end with '.json'
JsonFileNames ==
  {util.resp.children[j].name :
     j \in {h \in 1..Len(util.resp.children) :
              EndsWith(util.resp.children[h].name, DotJson)}}

\* C21: the utility module's client keys each Schema Reference by the file
\* name of its entry without the trailing '.json' and with nothing else
\* changed, for every file name that ends with '.json', also when '.json'
\* occurs earlier in the name.
C21_KeyIsNameWithoutSuffix ==
  (/\ util.fn = "utilsLoadSchemas" /\ util.pc = "done"
   /\ util.out.success /\ util.resp.hasChildren) =>
    /\ DOMAIN util.out.schemas = {WithoutSuffix(n, DotJson) : n \in JsonFileNames}
    /\ \A n \in JsonFileNames :
         util.out.schemas[WithoutSuffix(n, DotJson)].path
           = RemotePath(util.args.org, util.args.site, n)

\* the name of the schema whose document the k-th action has requested
ValidatedAgainst(k) ==
  CHOOSE n \in {SchemaX, SchemaY} : EndsWith(acts[k].path, <<"/">> \o n)

\* the document names the schema n in its x-schema-name cell
EmbedsName(html, n) == StartsAt(html, 1, HtmlHead \o escapeHtml(n) \o HtmlMiddle)

\* the alert of schema violations names the schema n
AlertNames(alert, n) ==
  alert.message = <<"JSON validation failed against the \"">> \o n \o <<"\" schema:">>

\* C22: the document an Import action publishes embeds the name of the
\* schema whose document the data was validated against in that action, and
\* the alert of its schema violations names that schema, also when the
\* schema name of the form changes while the schema request is outstanding.
C22_Step ==
  \A k \in 1..Len(acts) :
    (acts[k].kind = "submit" /\ acts[k].pc = "fetch") =>
      /\ PublishIssued(k) => EmbedsName(acts'[k].html, ValidatedAgainst(k))
      /\ (acts' = RemoveAt(acts, k) /\ alertBy' = "handleSubmit" /\ _alert'.hasErrors)
           => \E j \in 1..Len(acts) :
                /\ acts[j].kind = "submit" /\ acts[j].pc = "fetch"
                /\ acts' = RemoveAt(acts, j)
                /\ AlertNames(_alert', ValidatedAgainst(j))

C22_PublishedNameIsValidatedSchema == [][C22_Step]_vars

\* the alert is the validation-success alert written by a Validate action
ValidationSuccessShown == alertBy = "handleValidate" /\ _alert.type = "success"

\* C23: when a Validate action writes the validation-success alert, the
\* editor content of that moment is the text that parses and satisfies the
\* schema document the request was answered with; while that alert stays,
\* the editor content stays, as every change of the content clears the
\* alert: under the alert the content is the text that passed validation.
C23_Step ==
  /\ (Len(acts') < Len(acts) /\ ValidationSuccessShown') =>
       \E k \in 1..Len(acts) : \E resp \in SchemaResponses :
         /\ acts[k].kind = "validate" /\ acts[k].pc = "fetch"
         /\ acts' = RemoveAt(acts, k)
         /\ fetchSchemaResult(resp).success
         /\ validateAgainstSchema(_editor'.doc, fetchSchemaResult(resp).schema).valid
         /\ _editor' = _editor
  /\ (ValidationSuccessShown /\ _editor' # _editor) => _alert' = NoAlert

C23_Shown ==
  ValidationSuccessShown => _editor.view /\ JsonParses(_editor.doc)

C23_SuccessAlertMatchesContent == [][C23_Step]_vars /\ []C23_Shown

\* the validation-success alert of a Validate action stands over a text
\* that was typed into the editor, no action being in flight
C23_Witness ==
  /\ ValidationSuccessShown
  /\ _editor.doc = TextB
  /\ acts = <<>>

====
